---- MODULE Spec2Model ----
(***************************************************************************)
(* Waste-distribution core of the inventory backend (src/backend/app.js):  *)
(*   POST /api/distribute-stock            -- DistSpec                     *)
(*   POST /api/ai-distribute-recommendation -- RecSpec                     *)
(*     (the same handler under fair scheduling -- RecFairSpec)             *)
(*   GET /reduce-waste and the analyze-waste-distribution tool of the      *)
(*     agent (src/unnamed/part_009)         -- WasteSpec                   *)
(*   POST /api/distribute-stock over a collection of several products,     *)
(*     with the warehouse-network endpoints -- FrameSpec                   *)
(*   POST /api/generate-waste-plans         -- PlanSpec                    *)
(*   getShippingCosts, one call             -- ShipSpec                    *)
(*   POST /api/actions/:id/approve, reject, execute -- ActionSpec          *)
(*   the warehouse-network endpoints alone  -- NetSpec                     *)
(*   the launcher src/start-merged.js       -- LaunchSpec                  *)
(*   POST /api/distribute-stock with signed quantities -- SignedSpec       *)
(*   GET /api/inventory                     -- InvSpec                     *)
(* Quantities are integers.  Demand rates are carried in hundredths of a   *)
(* unit per day, so that the float arithmetic of the handlers is exact     *)
(* integer arithmetic here.                                                *)
(***************************************************************************)
EXTENDS Integers, Sequences, FiniteSets, TLC

\* ------------------------------------------------------------------ bounds
NumReq    == 2      \* concurrent POST /api/distribute-stock requests
MaxOnHand == 2      \* initial onHand of the product
MaxAlloc  == 1      \* allocations in one distribute-stock body
MaxQty    == 2      \* quantity of one allocation in a body
MaxWh     == 4      \* warehouses in one recommendation body
MaxExcess == 2      \* excessStock of a recommendation body
MaxHistory == 2     \* records in a demandHistory
MaxSold   == 3      \* unitsSold of one record
MaxFairWh == 3      \* warehouses of a body in the runs that check progress
MaxNet    == 1      \* stock requests, and transfers, of the warehouse network
MaxPlanExcess == 10 \* excessStock of a generate-waste-plans body
MaxPlans  == 6      \* plans in the JSON array an agent writes
MaxRates  == 2      \* rates in a ShipEngine response
MaxActionPosts == 4 \* requests on the action in one run
MaxNetRequests == 2 \* stock requests of the warehouse network on its own
MaxNetTransfers == 3 \* transfers of the warehouse network on its own
MaxExitCode == 2    \* exit codes of the child processes
MaxStock == 3       \* stock above which no further signed request is sent

\* ------------------------------------------------------- program constants
SupplyHorizonDays == 30   \* `daysOfSupply < 30`, `Math.ceil(demand * 30)`
OverstockLevel == 60      \* `onHand: { $gt: 60 }` of GET /reduce-waste
MinOptimalStock == 20     \* `Math.max(20, ...)` of GET /reduce-waste
OptimalDays == 30         \* `Math.ceil(avgDemand * 30)` of GET /reduce-waste
ToolExcessDays == 60      \* `Math.ceil(avgDemand * 60)` of the tool
BackendDelaySeconds == 5  \* `setTimeout(..., 5000)` of the launcher
ObjectIdLength == 24      \* `{24}` of the test on the user id

\* ------------------------------------------------------------------- state
VARIABLES
    onHand,       \* stored Inventory.onHand of the product (userId, SKU1)
    onHand0,      \* onHand when the run started (history)
    req,          \* per request: position in the handler, body, loaded doc, response
    excessStock,  \* req.body.excessStock of the recommendation requests
    warehouses,   \* req.body.warehouses of the recommendation requests
    rec,          \* the recommendation handler: position, locals, response
    answered,     \* the distributions of the first answer to this body (history)
    stockItem,    \* the product looked at: onHand and demandHistory
    page,         \* what GET /reduce-waste did for the product
    tool,         \* what the analyze-waste-distribution tool returned for it
    inventory,          \* the Inventory collection: onHand of each stored product
    warehouseRequests,  \* `let warehouseRequests = []`
    warehouseTransfers, \* `let warehouseTransfers = []`
    netRes,             \* the last answer of the warehouse-network endpoints
    call,         \* a distribute-stock request over the collection: position, body, response
    plan,         \* the generate-waste-plans handler: position, body, response
    ship,         \* one getShippingCosts call: key, events seen, the promise
    action,       \* the stored Action document: status, executedAt, history
    actionReq,    \* per request on the action: endpoint, position, loaded copy, response
    listing,      \* the last answer of GET /api/warehouse-requests
    launch,       \* the merged launcher: its timer, itself and its two children
    items,        \* the Inventory collection by owner, for GET /api/inventory
    query         \* a GET /api/inventory request and its response

distVars  == <<onHand, onHand0, req>>
recVars   == <<excessStock, warehouses, rec, answered>>
wasteVars == <<stockItem, page, tool>>
frameVars == <<inventory, warehouseRequests, warehouseTransfers, netRes, call>>
planVars  == <<plan>>
lateVars  == <<ship, action, actionReq, listing, launch, items, query>>
vars == <<onHand, onHand0, req, excessStock, warehouses, rec, answered,
          stockItem, page, tool,
          inventory, warehouseRequests, warehouseTransfers, netRes, call, plan,
          ship, action, actionReq, listing, launch, items, query>>

\* ============================================================================
\*  POST /api/distribute-stock
\* ============================================================================
Reqs == 1..NumReq

SKU1   == "SKU-1"       \* the sku of the stored product
SKU404 == "SKU-404"     \* a sku no product has

RECURSIVE SumQuantity(_)
\* distributions.reduce((sum, d) => sum + d.quantity, 0)
SumQuantity(ds) ==
    IF ds = <<>> THEN 0 ELSE SumQuantity(SubSeq(ds, 1, Len(ds) - 1)) + ds[Len(ds)].quantity

Distribution == [quantity : 0..MaxQty]
DistributionLists == UNION {[1..n -> Distribution] : n \in 0..MaxAlloc}

\* the request bodies: any distributions for the stored product, and one body
\* for a sku without product (the handler answers before reading distributions)
Bodies ==
    [productSku : {SKU1}, distributions : DistributionLists]
        \cup {[productSku |-> SKU404, distributions |-> <<[quantity |-> 1]>>]}

NoProduct == [found |-> FALSE, onHand |-> 0]
NoBody    == [productSku |-> SKU1, distributions |-> <<>>]
NoRes     == [success |-> FALSE, error |-> "none", totalDistributed |-> 0,
              warehousesUpdated |-> 0, newStockLevel |-> 0]

\* res.json({ success: false, error })
Failure(msg) == [NoRes EXCEPT !.error = msg]

\* Inventory.findOne({ userId, sku: productSku }): the loaded document, or null
FindOne(sku) ==
    IF sku = SKU1 THEN [found |-> TRUE, onHand |-> onHand] ELSE NoProduct

\* the sufficiency check of the handler
InsufficientStock_NoCheck(total, product) == FALSE
InsufficientStock_OffByOne(total, product) == total > product.onHand + 1
InsufficientStock(total, product) == total > product.onHand

\* product.onHand -= totalDistributed
Decrement(product, total) == [product EXCEPT !.onHand = @ - total]

\* the success response
SuccessRes_StaleLevel(body, product, total) ==
    [success |-> TRUE, error |-> "none", totalDistributed |-> total,
     warehousesUpdated |-> Len(body.distributions),
     newStockLevel |-> product.onHand + total]
SuccessRes(body, product, total) ==
    [success |-> TRUE, error |-> "none", totalDistributed |-> total,
     warehousesUpdated |-> Len(body.distributions),
     newStockLevel |-> product.onHand]

DistIdle ==
    req = [r \in Reqs |-> [pc |-> "idle", body |-> NoBody,
                           product |-> NoProduct, res |-> NoRes]]

\* the waste analysis at rest, for runs of the other handlers
NoPage == [status |-> "none", avgDemand |-> [num |-> 0, den |-> 1],
           excessStock |-> 0, suggestedQty |-> <<>>,
           apiKey |-> "unset", requests |-> 0, realCosts |-> <<>>, warehouses |-> <<>>]
NoTool == [status |-> "none", avgDemand |-> [num |-> 0, den |-> 1],
           excessStock |-> 0, suggestedQuantity |-> <<>>,
           totalRecommendedDistribution |-> 0, executionReady |-> FALSE]
WasteQuiet ==
    /\ stockItem = [onHand |-> 0, demandHistory |-> [present |-> FALSE, records |-> <<>>]]
    /\ page = NoPage
    /\ tool = NoTool

\* the stored products: (userId, sku) of each document of the collection
USER1 == "user123"
USER2 == "user456"
SKU2  == "SKU-2"
StoredProducts == {<<USER1, SKU1>>, <<USER1, SKU2>>, <<USER2, SKU1>>}

NoDoc == [found |-> FALSE, key |-> <<"", "">>, onHand |-> 0]
NoCall ==
    [pc |-> "idle", body |-> [userId |-> USER1, productSku |-> SKU1, distributions |-> <<>>],
     product |-> NoDoc, lookups |-> 0, before |-> <<>>, res |-> NoRes]

\* the collection and the warehouse network untouched, for runs of the other handlers
FrameQuiet ==
    /\ inventory = [k \in StoredProducts |-> 0]
    /\ warehouseRequests = <<>>
    /\ warehouseTransfers = <<>>
    /\ netRes = "none"
    /\ call = NoCall

NoPlans == [pc |-> "idle", excessStock |-> 0, plans |-> <<>>, success |-> FALSE]
PlanQuiet == plan = NoPlans

\* the remaining parts at rest: no shipping call, no action, no listing, the
\* launcher not started, no inventory query
NoShip    == [pc |-> "idle", apiKey |-> "unset", dest |-> 0, requests |-> 0,
              ended |-> FALSE, errored |-> FALSE, timedOut |-> FALSE,
              destroyed |-> FALSE, body |-> [kind |-> "none", rates |-> <<>>],
              settled |-> FALSE, rejected |-> FALSE,
              value |-> [null |-> TRUE, amount |-> 0], resolves |-> 0]
NoAction  == [status |-> "PENDING", executedAt |-> 0, approved |-> FALSE, posts |-> 0]
NoActionReqs == <<>>
NoListing == [asked |-> FALSE, requests |-> <<>>]
NoLaunch  == [launcher |-> "notStarted", code |-> 0, cause |-> "none",
              clock |-> 0, timer |-> "none",
              mastra |-> [state |-> "notStarted", code |-> 0, seen |-> FALSE],
              backend |-> [state |-> "notStarted", code |-> 0, seen |-> FALSE]]
NoItems   == {}
NoQuery   == [pc |-> "idle", session |-> <<>>, param |-> <<>>, userId |-> <<>>,
              filter |-> [byUser |-> FALSE, userId |-> <<>>], status |-> 0, body |-> {}]
LateQuiet ==
    /\ ship = NoShip
    /\ action = NoAction
    /\ actionReq = NoActionReqs
    /\ listing = NoListing
    /\ launch = NoLaunch
    /\ items = NoItems
    /\ query = NoQuery

\* the recommendation handler at rest, for runs of distribute-stock
RecQuiet ==
    /\ excessStock = 0
    /\ warehouses = <<>>
    /\ rec = [pc |-> "idle", path |-> "none", list |-> <<>>, i |-> 0,
              remainingStock |-> 0, distributions |-> <<>>, totalUnits |-> 0,
              estimatedCost |-> 0,
              res |-> [success |-> FALSE, shouldDistribute |-> FALSE,
                       distributions |-> <<>>, totalUnits |-> 0, estimatedCost |-> 0]]
    /\ answered = [any |-> FALSE, distributions |-> <<>>]

DistInit ==
    /\ onHand \in 0..MaxOnHand
    /\ onHand0 = onHand
    /\ DistIdle
    /\ RecQuiet
    /\ WasteQuiet
    /\ FrameQuiet
    /\ PlanQuiet
    /\ LateQuiet

\* the request arrives; the handler runs up to `await Inventory.findOne(...)`
Post(r) ==
    /\ req[r].pc = "idle"
    /\ \E body \in Bodies :
          req' = [req EXCEPT ![r].pc = "findOne", ![r].body = body]
    /\ UNCHANGED <<onHand, onHand0, recVars, wasteVars, frameVars, planVars, lateVars>>

\* findOne resolves; the handler runs up to `await product.save()` or answers
FindOneResolves(r) ==
    /\ req[r].pc = "findOne"
    /\ LET product == FindOne(req[r].body.productSku)
           total   == SumQuantity(req[r].body.distributions)
       IN  IF ~product.found
             THEN req' = [req EXCEPT ![r].pc = "done",
                                     ![r].res = Failure("Product not found")]
           ELSE IF InsufficientStock(total, product)
             THEN req' = [req EXCEPT ![r].pc = "done", ![r].product = product,
                                     ![r].res = Failure("Not enough stock to distribute")]
           ELSE req' = [req EXCEPT ![r].pc = "save",
                                   ![r].product = Decrement(product, total)]
    /\ UNCHANGED <<onHand, onHand0, recVars, wasteVars, frameVars, planVars, lateVars>>

\* save resolves: the document's onHand is written, and the handler answers
SaveResolves(r) ==
    /\ req[r].pc = "save"
    /\ onHand' = req[r].product.onHand
    /\ req' = [req EXCEPT ![r].pc = "done",
                          ![r].res = SuccessRes(req[r].body, req[r].product,
                                                SumQuantity(req[r].body.distributions))]
    /\ UNCHANGED <<onHand0, recVars, wasteVars, frameVars, planVars, lateVars>>

\* findOne or save rejects (database error): the catch block answers
DbError(r) ==
    /\ req[r].pc \in {"findOne", "save"}
    /\ req' = [req EXCEPT ![r].pc = "done", ![r].res = Failure("db error")]
    /\ UNCHANGED <<onHand, onHand0, recVars, wasteVars, frameVars, planVars, lateVars>>

DistNext ==
    \E r \in Reqs : Post(r) \/ FindOneResolves(r) \/ SaveResolves(r) \/ DbError(r)

\* ============================================================================
\*  POST /api/ai-distribute-recommendation
\* ============================================================================
\* A warehouse of the request body.  demand is in hundredths of a unit per day
\* (parseFloat(wh.demand) * 100); transferCost is a positive number.
Warehouse(d, s, c, q) ==
    [demand |-> d, currentStock |-> s, transferCost |-> c, suggestedQty |-> q]

WarehousePool ==
    { Warehouse(20, 1, 2, 2),    \* 5 days of supply, needs 5, score 0.1
      Warehouse(10, 1, 1, 1),    \* 10 days of supply, needs 2, score 0.1 at lower cost
      Warehouse(10, 3, 1, 2),    \* exactly 30 days of supply
      Warehouse( 0, 1, 1, 2),    \* no demand: infinite supply
      Warehouse( 5, 1, 2, 2),    \* 20 days, ceil(1.5) - 1 = 1 unit needed
      Warehouse(20, 0, 1, 0) }   \* empty warehouse: score Infinity; nothing suggested
\* (a warehouse with neither stock nor demand scores 0 / 0 = NaN, which makes
\* the comparator inconsistent and the order of the sort implementation-defined;
\* the pool leaves it out)

\* the bodies: a list of at most MaxWh warehouses, ids in input order
WarehouseLists ==
    UNION { { [i \in 1..n |-> [id |-> i] @@ f[i]] : f \in [1..n -> WarehousePool] }
            : n \in 0..MaxWh }

\* aiData.text, as the words it is made of
AgentTexts ==
    { <<"Yes", "ship", "it">>, <<"I", "recommend", "a", "transfer">>,
      <<"Distribute", "now">>, <<"No">>, <<>> }

\* String.prototype.toLowerCase, on the words of AgentTexts
ToLowerCase(w) ==
    CASE w = "Yes" -> "yes" [] w = "Distribute" -> "distribute" [] w = "No" -> "no"
      [] w = "I" -> "i" [] OTHER -> w

\* aiText.toLowerCase().includes(kw)
Includes(text, kw) == \E k \in 1..Len(text) : ToLowerCase(text[k]) = kw

ShouldDistribute(aiText) ==
    Includes(aiText, "yes") \/ Includes(aiText, "recommend") \/ Includes(aiText, "distribute")

\* (parseFloat(wh.demand) / wh.currentStock) / wh.transferCost as a double:
\* NaN for 0 / 0, +Infinity for x / 0, otherwise the fraction num / den
Priority(wh) ==
    IF wh.currentStock = 0
      THEN [kind |-> IF wh.demand = 0 THEN "NaN" ELSE "Infinity", num |-> 0, den |-> 1]
      ELSE [kind |-> "finite", num |-> wh.demand,
            den |-> 100 * wh.currentStock * wh.transferCost]

Sign(x) == IF x > 0 THEN 1 ELSE IF x < 0 THEN -1 ELSE 0

\* the comparator (a, b) => b.priority - a.priority, as the sign Array.prototype.sort
\* uses (a NaN result, from NaN or from Infinity - Infinity, counts as 0)
SortCompare(a, b) ==
    LET pa == Priority(a)  pb == Priority(b)
    IN  IF pa.kind = "NaN" \/ pb.kind = "NaN" THEN 0
        ELSE IF pa.kind = "Infinity" /\ pb.kind = "Infinity" THEN 0
        ELSE IF pb.kind = "Infinity" THEN 1
        ELSE IF pa.kind = "Infinity" THEN -1
        ELSE Sign(pb.num * pa.den - pa.num * pb.den)

\* x goes before the first element that the comparator puts after it
InsertStable_BeforeTies(sorted, x) ==
    LET after == {k \in 1..Len(sorted) : SortCompare(sorted[k], x) >= 0}
        at    == IF after = {} THEN Len(sorted) + 1
                 ELSE CHOOSE k \in after : \A m \in after : k <= m
    IN  SubSeq(sorted, 1, at - 1) \o <<x>> \o SubSeq(sorted, at, Len(sorted))
InsertStable(sorted, x) ==
    LET after == {k \in 1..Len(sorted) : SortCompare(sorted[k], x) > 0}
        at    == IF after = {} THEN Len(sorted) + 1
                 ELSE CHOOSE k \in after : \A m \in after : k <= m
    IN  SubSeq(sorted, 1, at - 1) \o <<x>> \o SubSeq(sorted, at, Len(sorted))

RECURSIVE StableSort(_)
\* Array.prototype.sort with a consistent comparator: a stable sort
StableSort(ws) ==
    IF ws = <<>> THEN <<>>
    ELSE InsertStable(StableSort(SubSeq(ws, 1, Len(ws) - 1)), ws[Len(ws)])

\* [...warehouses].map(wh => ({ ...wh, priority })).sort((a, b) => b.priority - a.priority)
SortedWarehouses(ws) == StableSort(ws)

\* daysOfSupply < 30, with daysOfSupply = wh.currentStock / demand
\* (x / 0 is Infinity, 0 / 0 is NaN: neither is below 30)
DaysOfSupplyBelow30(wh) ==
    /\ wh.demand > 0
    /\ 100 * wh.currentStock < SupplyHorizonDays * wh.demand

\* Math.ceil(demand * 30) for demand >= 0
CeilDemand30(wh) == (SupplyHorizonDays * wh.demand + 99) \div 100

Min2(a, b) == IF a <= b THEN a ELSE b

\* Math.min(neededUnits, remainingStock, wh.suggestedQty)
QuantityToSend_Uncapped(wh, remainingStock) ==
    Min2(CeilDemand30(wh) - wh.currentStock, wh.suggestedQty)
QuantityToSend_NoNeed(wh, remainingStock) == Min2(remainingStock, wh.suggestedQty)
QuantityToSend(wh, remainingStock) ==
    Min2(Min2(CeilDemand30(wh) - wh.currentStock, remainingStock), wh.suggestedQty)

\* Math.min(wh.suggestedQty, remainingStock) of the fallback
FallbackQty(wh, remainingStock) == Min2(wh.suggestedQty, remainingStock)

\* let remainingStock = excessStock
RemainingAtStart_AtLeastOne(excess) == IF excess > 0 THEN excess ELSE 1
RemainingAtStart(excess) == excess

\* warehouses.slice(0, 3)
Slice3(ws) == SubSeq(ws, 1, Min2(3, Len(ws)))

\* if (quantityToSend > 0) / if (qty > 0): only then is the entry pushed
IsPushed_Always(q) == TRUE
IsPushed(q) == q > 0

\* distributions.push({ warehouseId: wh.id, quantity, ... })
Push(ds, wh, q) == Append(ds, [warehouseId |-> wh.id, quantity |-> q])

\* history: the first answer stays, later answers are compared with it
NoAnswer == [any |-> FALSE, distributions |-> <<>>]
Record(history, ds) ==
    IF history.any THEN history ELSE [any |-> TRUE, distributions |-> ds]

NoRecommendation ==
    [success |-> FALSE, shouldDistribute |-> FALSE, distributions |-> <<>>,
     totalUnits |-> 0, estimatedCost |-> 0]

RecIdle ==
    [pc |-> "idle", path |-> "none", list |-> <<>>, i |-> 0, remainingStock |-> 0,
     distributions |-> <<>>, totalUnits |-> 0, estimatedCost |-> 0,
     res |-> NoRecommendation]

\* the stock untouched, for runs of the recommendation handler
DistQuiet ==
    /\ onHand = 0
    /\ onHand0 = 0
    /\ DistIdle

RecInit ==
    /\ excessStock \in 0..MaxExcess
    /\ warehouses \in WarehouseLists
    /\ rec = RecIdle
    /\ answered = NoAnswer
    /\ DistQuiet
    /\ WasteQuiet
    /\ FrameQuiet
    /\ PlanQuiet
    /\ LateQuiet

\* a request with this body arrives; the handler runs up to `await fetch(...)`
RecPost ==
    /\ rec.pc \in {"idle", "done"}
    /\ rec' = [RecIdle EXCEPT !.pc = "fetch"]
    /\ UNCHANGED <<excessStock, warehouses, answered, distVars, wasteVars, frameVars, planVars, lateVars>>

\* the agent answers 200 with a JSON body whose text is aiText
AgentAnswers ==
    /\ rec.pc = "fetch"
    /\ \E aiText \in AgentTexts :
          IF ShouldDistribute(aiText)
            THEN /\ rec' = [rec EXCEPT !.pc = "agentLoop", !.path = "agent",
                                       !.list = SortedWarehouses(warehouses), !.i = 1,
                                       !.remainingStock = RemainingAtStart(excessStock)]
                 /\ UNCHANGED answered
            ELSE /\ rec' = [rec EXCEPT !.pc = "done", !.path = "agent",
                                       !.res = [NoRecommendation EXCEPT !.success = TRUE]]
                 /\ answered' = Record(answered, <<>>)
    /\ UNCHANGED <<excessStock, warehouses, distVars, wasteVars, frameVars, planVars, lateVars>>

\* fetch rejects, the status is not ok, or the body is not JSON: the catch block
AgentFails ==
    /\ rec.pc = "fetch"
    /\ \E failure \in {"unreachable", "notOk", "badJson"} :
          rec' = [rec EXCEPT !.pc = "fallbackLoop", !.path = "fallback",
                             !.list = Slice3(warehouses), !.i = 1,
                             !.remainingStock = RemainingAtStart(excessStock)]
    /\ UNCHANGED <<excessStock, warehouses, answered, distVars, wasteVars, frameVars, planVars, lateVars>>

\* one iteration of `for (const wh of sortedWarehouses)`
AgentIteration ==
    /\ rec.pc = "agentLoop"
    /\ rec.i <= Len(rec.list)
    /\ rec.remainingStock > 0
    /\ LET wh == rec.list[rec.i]
           quantityToSend == QuantityToSend(wh, rec.remainingStock)
       IN  IF DaysOfSupplyBelow30(wh) /\ IsPushed(quantityToSend)
             THEN rec' = [rec EXCEPT
                            !.i = @ + 1,
                            !.distributions = Push(@, wh, quantityToSend),
                            !.totalUnits = @ + quantityToSend,
                            !.estimatedCost = @ + wh.transferCost * quantityToSend,
                            !.remainingStock = @ - quantityToSend]
             ELSE rec' = [rec EXCEPT !.i = @ + 1]
    /\ UNCHANGED <<excessStock, warehouses, answered, distVars, wasteVars, frameVars, planVars, lateVars>>

\* the loop ends (list exhausted, or break on remainingStock <= 0): res.json(...)
AgentResponds ==
    /\ rec.pc = "agentLoop"
    /\ rec.i > Len(rec.list) \/ rec.remainingStock <= 0
    /\ rec' = [rec EXCEPT !.pc = "done",
                 !.res = [success |-> TRUE,
                          shouldDistribute |-> Len(rec.distributions) > 0,
                          distributions |-> rec.distributions,
                          totalUnits |-> rec.totalUnits,
                          estimatedCost |-> rec.estimatedCost]]
    /\ answered' = Record(answered, rec.distributions)
    /\ UNCHANGED <<excessStock, warehouses, distVars, wasteVars, frameVars, planVars, lateVars>>

\* one iteration of `for (const wh of warehouses.slice(0, 3))`
FallbackIteration ==
    /\ rec.pc = "fallbackLoop"
    /\ rec.i <= Len(rec.list)
    /\ rec.remainingStock > 0
    /\ LET wh  == rec.list[rec.i]
           qty == FallbackQty(wh, rec.remainingStock)
       IN  IF IsPushed(qty)
             THEN rec' = [rec EXCEPT
                            !.i = @ + 1,
                            !.distributions = Push(@, wh, qty),
                            !.totalUnits = @ + qty,
                            !.estimatedCost = @ + wh.transferCost * qty,
                            !.remainingStock = @ - qty]
             ELSE rec' = [rec EXCEPT !.i = @ + 1]
    /\ UNCHANGED <<excessStock, warehouses, answered, distVars, wasteVars, frameVars, planVars, lateVars>>

\* res.json({ success: true, recommendation: ... }) of the catch block
CatchSuccess_ErrorSurfaced == FALSE
CatchSuccess == TRUE

\* the fallback loop ends: res.json(...) of the catch block
FallbackResponds ==
    /\ rec.pc = "fallbackLoop"
    /\ rec.i > Len(rec.list) \/ rec.remainingStock <= 0
    /\ rec' = [rec EXCEPT !.pc = "done",
                 !.res = [success |-> CatchSuccess,
                          shouldDistribute |-> TRUE,
                          distributions |-> rec.distributions,
                          totalUnits |-> rec.totalUnits,
                          estimatedCost |-> rec.estimatedCost]]
    /\ answered' = Record(answered, rec.distributions)
    /\ UNCHANGED <<excessStock, warehouses, distVars, wasteVars, frameVars, planVars, lateVars>>

RecNext ==
    \/ RecPost
    \/ AgentAnswers
    \/ AgentFails
    \/ AgentIteration
    \/ AgentResponds
    \/ FallbackIteration
    \/ FallbackResponds

\* the bodies of the runs that check progress: shorter lists, the same pool
RecFairInit ==
    /\ excessStock \in 0..MaxExcess
    /\ warehouses \in { ws \in WarehouseLists : Len(ws) <= MaxFairWh }
    /\ rec = RecIdle
    /\ answered = NoAnswer
    /\ DistQuiet
    /\ WasteQuiet
    /\ FrameQuiet
    /\ PlanQuiet
    /\ LateQuiet

\* Every await of the handler settles (fetch resolves or rejects, the body
\* parses or fails to) and the loops run on without waiting: a handler that
\* can take a step takes it.  New requests are under no such obligation.
RecHandlerStep ==
    \/ AgentAnswers
    \/ AgentFails
    \/ AgentIteration
    \/ AgentResponds
    \/ FallbackIteration
    \/ FallbackResponds

\* ============================================================================
\*  POST /api/distribute-stock over the collection, and the warehouse network
\* ============================================================================
\* the bodies: any user and sku, stored or not, one allocation at most
FrameBodies ==
    [userId : {USER1, USER2}, productSku : {SKU1, SKU2, SKU404},
     distributions : {ds \in DistributionLists : Len(ds) <= 1}]

\* the filter { userId, sku: productSku } of findOne
Matches_AnyUser(key, userId, sku) == key[2] = sku
Matches(key, userId, sku) == key = <<userId, sku>>

\* Inventory.findOne(filter): a matching document, or null
FindOneOf(userId, sku) ==
    IF \E key \in StoredProducts : Matches(key, userId, sku)
      THEN LET key == CHOOSE k \in StoredProducts : Matches(k, userId, sku)
           IN  [found |-> TRUE, key |-> key, onHand |-> inventory[key]]
      ELSE NoDoc

\* product.save(): the documents the write reaches
SavedKeys_EverySku(product) == {key \in StoredProducts : key[2] = product.key[2]}
SavedKeys(product) == {product.key}

\* Date.now() of the ids: time does not run backwards, and two calls within
\* one millisecond read the same value
Timestamps == {1, 2}
Latest(entries) == IF entries = <<>> THEN 1 ELSE entries[Len(entries)].id
Now == {t \in Timestamps : t >= Latest(warehouseRequests) /\ t >= Latest(warehouseTransfers)}

\* warehouseRequests.find(r => r.id === requestId): index of the first match, 0 if none
FindRequest(requestId) ==
    IF \E k \in 1..Len(warehouseRequests) : warehouseRequests[k].id = requestId
      THEN CHOOSE k \in 1..Len(warehouseRequests) :
               /\ warehouseRequests[k].id = requestId
               /\ \A j \in 1..(k - 1) : warehouseRequests[j].id # requestId
      ELSE 0

FrameInit ==
    /\ inventory \in [StoredProducts -> 1..MaxOnHand]
    /\ warehouseRequests = <<>>
    /\ warehouseTransfers = <<>>
    /\ netRes = "none"
    /\ call = NoCall
    /\ DistQuiet
    /\ RecQuiet
    /\ WasteQuiet
    /\ PlanQuiet
    /\ LateQuiet

\* the request arrives; the handler runs up to `await Inventory.findOne(...)`
FramePost ==
    /\ call.pc \in {"idle", "done"}
    /\ \E body \in FrameBodies :
          call' = [NoCall EXCEPT !.pc = "findOne", !.body = body, !.lookups = 1,
                                 !.before = inventory]
    /\ UNCHANGED <<inventory, warehouseRequests, warehouseTransfers, netRes,
                   distVars, recVars, wasteVars, planVars, lateVars>>

\* findOne resolves; the handler runs up to `await product.save()` or answers
FrameFindOneResolves ==
    /\ call.pc = "findOne"
    /\ LET product == FindOneOf(call.body.userId, call.body.productSku)
           total   == SumQuantity(call.body.distributions)
       IN  IF ~product.found
             THEN call' = [call EXCEPT !.pc = "done", !.res = Failure("Product not found")]
           ELSE IF InsufficientStock(total, product)
             THEN call' = [call EXCEPT !.pc = "done", !.product = product,
                                       !.res = Failure("Not enough stock to distribute")]
           ELSE call' = [call EXCEPT !.pc = "save", !.product = Decrement(product, total)]
    /\ UNCHANGED <<inventory, warehouseRequests, warehouseTransfers, netRes,
                   distVars, recVars, wasteVars, planVars, lateVars>>

\* save resolves: the document is written, and the handler answers
FrameSaveResolves ==
    /\ call.pc = "save"
    /\ inventory' = [key \in StoredProducts |->
                        IF key \in SavedKeys(call.product) THEN call.product.onHand
                                                           ELSE inventory[key]]
    /\ call' = [call EXCEPT !.pc = "done",
                            !.res = SuccessRes(call.body, call.product,
                                               SumQuantity(call.body.distributions))]
    /\ UNCHANGED <<warehouseRequests, warehouseTransfers, netRes,
                   distVars, recVars, wasteVars, planVars, lateVars>>

\* findOne or save rejects (database error): the catch block answers
FrameDbError ==
    /\ call.pc \in {"findOne", "save"}
    /\ call' = [call EXCEPT !.pc = "done", !.res = Failure("db error")]
    /\ UNCHANGED <<inventory, warehouseRequests, warehouseTransfers, netRes,
                   distVars, recVars, wasteVars, planVars, lateVars>>

\* POST /api/warehouse-request
CreateRequest ==
    /\ Len(warehouseRequests) < MaxNet
    /\ \E now \in Now :
          warehouseRequests' = Append(warehouseRequests, [id |-> now, status |-> "pending"])
    /\ netRes' = "created"
    /\ UNCHANGED <<inventory, warehouseTransfers, call, distVars, recVars, wasteVars, planVars, lateVars>>

\* POST /api/warehouse-request/:requestId/fulfill
Fulfill ==
    /\ \E requestId \in Timestamps :
          LET k == FindRequest(requestId)
          IN  IF k = 0
                THEN /\ netRes' = "notFound"
                     /\ UNCHANGED <<warehouseRequests, warehouseTransfers>>
                ELSE /\ Len(warehouseTransfers) < MaxNet
                     /\ warehouseRequests' = [warehouseRequests EXCEPT ![k].status = "fulfilled"]
                     /\ \E now \in Now :
                           warehouseTransfers' = Append(warehouseTransfers, [id |-> now])
                     /\ netRes' = "fulfilled"
    /\ UNCHANGED <<inventory, call, distVars, recVars, wasteVars, planVars, lateVars>>

FrameNext ==
    \/ FramePost
    \/ FrameFindOneResolves
    \/ FrameSaveResolves
    \/ FrameDbError
    \/ CreateRequest
    \/ Fulfill

\* ============================================================================
\*  POST /api/generate-waste-plans
\* ============================================================================
\* Math.floor(excessStock * 0.4) and the like, in tenths
FloorTenths(excess, tenths) == (excess * tenths) \div 10

\* the five mock plans of the handler body
MockPlans(excess) ==
    << [type |-> "bundle",      units |-> FloorTenths(excess, 4)],
       [type |-> "discount",    units |-> FloorTenths(excess, 3)],
       [type |-> "promotion",   units |-> FloorTenths(excess, 2)],
       [type |-> "donation",    units |-> 0],
       [type |-> "liquidation", units |-> FloorTenths(excess, 6)] >>

\* the two mock plans of the catch block
CatchPlans(excess) ==
    << [type |-> "bundle",   units |-> FloorTenths(excess, 4)],
       [type |-> "discount", units |-> FloorTenths(excess, 3)] >>

\* aiData.text: text holding a JSON array of n plans, text without any
\* bracketed part, and text whose bracketed part is not JSON
AgentPlanTexts ==
    [kind : {"array"}, n : 0..MaxPlans] \cup
        {[kind |-> "noArray", n |-> 0], [kind |-> "notJson", n |-> 0]}

\* aiText.match(/\[[\s\S]*\]/) and JSON.parse of the match; null when there
\* is no match or the parse throws
ParsePlans(aiText) ==
    IF aiText.kind = "array"
      THEN [null |-> FALSE, plans |-> [k \in 1..aiText.n |-> [type |-> "agent", units |-> 0]]]
      ELSE [null |-> TRUE, plans |-> <<>>]

PlanInit ==
    /\ plan = NoPlans
    /\ DistQuiet
    /\ RecQuiet
    /\ WasteQuiet
    /\ FrameQuiet
    /\ LateQuiet

\* the request arrives; the handler runs up to `await fetch(...)`
PlanPost ==
    /\ plan.pc \in {"idle", "done"}
    /\ \E excess \in 0..MaxPlanExcess :
          plan' = [NoPlans EXCEPT !.pc = "fetch", !.excessStock = excess]
    /\ UNCHANGED <<distVars, recVars, wasteVars, frameVars, lateVars>>

\* the agent answers 200 with a JSON body: parse, or the five mock plans
PlanAgentAnswers ==
    /\ plan.pc = "fetch"
    /\ \E aiText \in AgentPlanTexts :
          LET parsed == ParsePlans(aiText)
          IN  plan' = [plan EXCEPT !.pc = "done", !.success = TRUE,
                                   !.plans = IF parsed.null THEN MockPlans(plan.excessStock)
                                                            ELSE parsed.plans]
    /\ UNCHANGED <<distVars, recVars, wasteVars, frameVars, lateVars>>

\* fetch rejects, the status is not ok, or the body is not JSON: the catch block
PlanAgentFails ==
    /\ plan.pc = "fetch"
    /\ plan' = [plan EXCEPT !.pc = "done", !.success = TRUE,
                            !.plans = CatchPlans(plan.excessStock)]
    /\ UNCHANGED <<distVars, recVars, wasteVars, frameVars, lateVars>>

PlanNext ==
    \/ PlanPost
    \/ PlanAgentAnswers
    \/ PlanAgentFails

\* ============================================================================
\*  GET /reduce-waste and the analyze-waste-distribution tool
\* ============================================================================
\* product.onHand of the candidates: at, just above and well above the
\* overstock level of 60, and below it
OnHandLevels == {0, 20, 60, 61, 75, 90, 120}

\* product.demandHistory: a list of records, or no field at all
Missing == [present |-> FALSE, records |-> <<>>]
Histories ==
    {[present |-> TRUE, records |-> h] :
        h \in UNION {[1..n -> [unitsSold : 0..MaxSold]] : n \in 0..MaxHistory}}
    \cup {Missing}

RECURSIVE SumSold(_)
\* demands.reduce((a, b) => a + b, 0)
SumSold(demands) ==
    IF demands = <<>> THEN 0
    ELSE SumSold(SubSeq(demands, 1, Len(demands) - 1)) + demands[Len(demands)]

\* product.demandHistory?.map(d => d.unitsSold) || []
Demands(history) ==
    IF ~history.present THEN <<>>
    ELSE [k \in 1..Len(history.records) |-> history.records[k].unitsSold]

\* demands.length > 0 ? sum / demands.length : 0, as the fraction num / den
AvgDemand_NoGuard(history) ==
    LET demands == Demands(history)
    IN  [num |-> SumSold(demands), den |-> Len(demands) + 1]
AvgDemand(history) ==
    LET demands == Demands(history)
    IN  IF Len(demands) > 0 THEN [num |-> SumSold(demands), den |-> Len(demands)]
        ELSE [num |-> 0, den |-> 1]

\* Math.ceil(avgDemand * days) for avgDemand >= 0
CeilAvgTimes(avg, days) == (days * avg.num + avg.den - 1) \div avg.den

Max2(a, b) == IF a >= b THEN a ELSE b

\* optimalStock and excessStock of GET /reduce-waste
OptimalStock(avg) == Max2(MinOptimalStock, CeilAvgTimes(avg, OptimalDays))
ExcessStock_NoFloor(stock, avg) == Max2(0, stock - CeilAvgTimes(avg, OptimalDays))
ExcessStock(stock, avg) == Max2(0, stock - OptimalStock(avg))

\* excessStock of the tool
ToolExcessStock(stock, avg) == Max2(0, stock - CeilAvgTimes(avg, ToolExcessDays))

\* the days of demand behind suggestedQty of WH-001 .. WH-005 (both copies)
SuggestedDays == <<30, 20, 40, 15, 50>>

\* Math.min(excessStock, Math.ceil(avgDemand * days)) per warehouse
SuggestedQuantities(excess, avg) ==
    [k \in 1..Len(SuggestedDays) |-> Min2(excess, CeilAvgTimes(avg, SuggestedDays[k]))]

RECURSIVE SumSeq(_)
\* recommendations.reduce((sum, r) => sum + r.suggestedQuantity, 0)
SumSeq(qs) == IF qs = <<>> THEN 0 ELSE qs[1] + SumSeq(Tail(qs))

WasteInit ==
    /\ stockItem \in [onHand : OnHandLevels, demandHistory : Histories]
    /\ page = NoPage
    /\ tool = NoTool
    /\ DistQuiet
    /\ RecQuiet
    /\ FrameQuiet
    /\ PlanQuiet
    /\ LateQuiet

\* process.env.SHIPENGINE_API_KEY: not set, the placeholder of the sample
\* configuration, or a key
ApiKeys == {"unset", "placeholder", "live"}

\* !(!apiKey || apiKey === 'your_shipengine_api_key_here')
KeyUsable(apiKey) == apiKey \notin {"unset", "placeholder"}

\* what getShippingCosts resolves to: null, or an amount (in cents)
NoCost == [null |-> TRUE, amount |-> 0]
Cost(amount) == [null |-> FALSE, amount |-> amount]

\* shipping_amount.amount of the rates a response carries, in cents: a free
\* rate, and a rate that equals a mock cost
RateAmounts == {0, 5275}

\* the values `await getShippingCosts(originZip, wh.zipCode)` can have
ShippingResults(apiKey) ==
    IF KeyUsable(apiKey) THEN {NoCost} \cup {Cost(a) : a \in RateAmounts} ELSE {NoCost}

\* realCost as a condition: null and 0 are falsy
Truthy(realCost) == ~realCost.null /\ realCost.amount # 0

\* mockCosts of WH-001 .. WH-005, in cents
MockCosts == <<4550, 5275, 5820, 6590, 7840>>

\* transferCost: realCost || mockCosts[wh.id]
TransferCost(k, realCost) == IF Truthy(realCost) THEN realCost.amount ELSE MockCosts[k]

\* costSource: realCost ? 'shipengine' : 'estimated'
CostSource_NotNull(realCost) == IF ~realCost.null THEN "shipengine" ELSE "estimated"
CostSource(realCost) == IF Truthy(realCost) THEN "shipengine" ELSE "estimated"

\* x goes before the first element with a higher transferCost
InsertByCost(sorted, x) ==
    LET after == {k \in 1..Len(sorted) : sorted[k].transferCost > x.transferCost}
        at    == IF after = {} THEN Len(sorted) + 1
                 ELSE CHOOSE k \in after : \A m \in after : k <= m
    IN  SubSeq(sorted, 1, at - 1) \o <<x>> \o SubSeq(sorted, at, Len(sorted))

SortByCost_Unsorted(ws) == ws
RECURSIVE SortByCost(_)
\* warehouses.sort((a, b) => a.transferCost - b.transferCost)
SortByCost(ws) ==
    IF ws = <<>> THEN <<>>
    ELSE InsertByCost(SortByCost(SubSeq(ws, 1, Len(ws) - 1)), ws[Len(ws)])

\* the warehouses after Promise.all(warehouseDefinitions.map(...))
WithCosts(suggested, realCosts) ==
    [k \in 1..Len(suggested) |->
        [id |-> k, suggestedQty |-> suggested[k],
         transferCost |-> TransferCost(k, realCosts[k]),
         costSource |-> CostSource(realCosts[k])]]

\* GET /reduce-waste: redirect unless the product is overstocked, else the
\* quantities, the five shipping costs, the sort and the render
ReduceWaste ==
    /\ page.status = "none"
    /\ IF stockItem.onHand > OverstockLevel
         THEN LET avgDemand == AvgDemand(stockItem.demandHistory)
                  excess    == ExcessStock(stockItem.onHand, avgDemand)
                  suggested == SuggestedQuantities(excess, avgDemand)
              IN  \E apiKey \in ApiKeys :
                    \E realCosts \in [1..Len(suggested) -> ShippingResults(apiKey)] :
                       page' = [status |-> "render", avgDemand |-> avgDemand,
                                excessStock |-> excess,
                                suggestedQty |-> suggested,
                                apiKey |-> apiKey,
                                requests |-> IF KeyUsable(apiKey) THEN Len(suggested) ELSE 0,
                                realCosts |-> realCosts,
                                warehouses |-> SortByCost(WithCosts(suggested, realCosts))]
         ELSE page' = [NoPage EXCEPT !.status = "redirect"]
    /\ UNCHANGED <<stockItem, tool, distVars, recVars, frameVars, planVars, lateVars>>

\* wasteDistributionTool.execute for the sku of the product
ToolExecute ==
    /\ LET avgDemand == AvgDemand(stockItem.demandHistory)
           excess    == ToolExcessStock(stockItem.onHand, avgDemand)
           suggested == SuggestedQuantities(excess, avgDemand)
       IN  tool' = [status |-> "ok", avgDemand |-> avgDemand, excessStock |-> excess,
                    suggestedQuantity |-> suggested,
                    totalRecommendedDistribution |-> SumSeq(suggested),
                    executionReady |-> excess > 0]
    /\ UNCHANGED <<stockItem, page, distVars, recVars, frameVars, planVars, lateVars>>

\* the tool's fetch fails or no item has the sku: execute throws
ToolThrows ==
    /\ tool' = [NoTool EXCEPT !.status = "error"]
    /\ UNCHANGED <<stockItem, page, distVars, recVars, frameVars, planVars, lateVars>>

WasteNext == ReduceWaste \/ ToolExecute \/ ToolThrows

\* ============================================================================
\*  getShippingCosts: one call, its request events and its promise
\* ============================================================================
\* the body a response ends with: JSON with rate_response.rates, JSON without
\* rates (an error answer), the JSON value null, or no JSON at all
ResponseBodies ==
    {[kind |-> "rates", rates |-> r] :
        r \in UNION {[1..n -> RateAmounts] : n \in 0..MaxRates}}
      \cup {[kind |-> k, rates |-> <<>>] : k \in {"noRates", "jsonNull", "notJson"}}

RECURSIVE Cheapest(_)
\* rates.reduce((min, rate) => rate.amount < min.amount ? rate : min)
Cheapest(rates) ==
    IF Len(rates) = 1 THEN rates[1]
    ELSE LET min  == Cheapest(SubSeq(rates, 1, Len(rates) - 1))
             rate == rates[Len(rates)]
         IN  IF rate < min THEN rate ELSE min

\* what the 'end' handler does with the body: resolve(amount) or resolve(null);
\* every throw inside it is caught and ends in resolve(null)
EndResult_NoCatch(body) ==
    IF body.kind = "rates" /\ Len(body.rates) > 0
      THEN [settle |-> "resolve", value |-> Cost(Cheapest(body.rates))]
    ELSE IF body.kind \in {"jsonNull", "notJson"}
      THEN [settle |-> "reject", value |-> NoCost]
    ELSE [settle |-> "resolve", value |-> NoCost]
EndResult(body) ==
    IF body.kind = "rates" /\ Len(body.rates) > 0
      THEN [settle |-> "resolve", value |-> Cost(Cheapest(body.rates))]
      ELSE [settle |-> "resolve", value |-> NoCost]

\* resolve or reject on the promise: the first call settles it, later calls do nothing
Settle(promise, result) ==
    IF promise.settled
      THEN [promise EXCEPT !.resolves = @ + 1]
      ELSE [promise EXCEPT !.settled = TRUE, !.resolves = @ + 1,
                           !.rejected = (result.settle = "reject"),
                           !.value = result.value]

ShipInit ==
    /\ ship = NoShip
    /\ DistQuiet
    /\ RecQuiet
    /\ WasteQuiet
    /\ FrameQuiet
    /\ PlanQuiet
    /\ action = NoAction
    /\ actionReq = NoActionReqs
    /\ listing = NoListing
    /\ launch = NoLaunch
    /\ items = NoItems
    /\ query = NoQuery

\* getShippingCosts(originZip, wh.zipCode) for one of the five warehouses:
\* null at once without a usable key, else the request is written
ShipCall ==
    /\ ship.pc \in {"idle", "returned", "requested"}
    /\ ship.pc = "requested" => ship.settled
    /\ \E apiKey \in ApiKeys, dest \in 1..Len(MockCosts) :
          IF KeyUsable(apiKey)
            THEN ship' = [NoShip EXCEPT !.pc = "requested", !.apiKey = apiKey,
                                        !.dest = dest, !.requests = 1]
            ELSE ship' = [NoShip EXCEPT !.pc = "returned", !.apiKey = apiKey,
                                        !.dest = dest, !.settled = TRUE, !.value = NoCost]
    /\ UNCHANGED <<distVars, recVars, wasteVars, frameVars, planVars,
                   action, actionReq, listing, launch, items, query>>

\* res.on('end'): the body is complete
ResponseEnd ==
    /\ ship.pc = "requested"
    /\ ~ship.ended
    /\ \E body \in ResponseBodies :
          ship' = [Settle(ship, EndResult(body)) EXCEPT !.ended = TRUE, !.body = body]
    /\ UNCHANGED <<distVars, recVars, wasteVars, frameVars, planVars,
                   action, actionReq, listing, launch, items, query>>

\* req.on('error')
RequestError ==
    /\ ship.pc = "requested"
    /\ ~ship.errored
    /\ ship' = [Settle(ship, [settle |-> "resolve", value |-> NoCost]) EXCEPT !.errored = TRUE]
    /\ UNCHANGED <<distVars, recVars, wasteVars, frameVars, planVars,
                   action, actionReq, listing, launch, items, query>>

\* req.setTimeout(5000, ...): req.destroy() and resolve(null)
RequestTimeout ==
    /\ ship.pc = "requested"
    /\ ~ship.timedOut
    /\ ship' = [Settle(ship, [settle |-> "resolve", value |-> NoCost])
                  EXCEPT !.timedOut = TRUE, !.destroyed = TRUE]
    /\ UNCHANGED <<distVars, recVars, wasteVars, frameVars, planVars,
                   action, actionReq, listing, launch, items, query>>

\* an event of a request in flight: the response ends, the request fails, or
\* the socket stays idle for five seconds
ShipEvent ==
    \/ ResponseEnd
    \/ RequestError
    \/ RequestTimeout

ShipNext ==
    \/ ShipCall
    \/ ResponseEnd
    \/ RequestError
    \/ RequestTimeout

\* ============================================================================
\*  POST /api/actions/approve/:id, /reject/:id, /execute/:id
\* ============================================================================
\* two requests can be in flight on the one stored action
ActionReqs == {1, 2}
Endpoints == {"approve", "reject", "execute"}

NoActionRes == [success |-> FALSE, message |-> "none"]
IdleActionReq ==
    [pc |-> "idle", op |-> "approve", known |-> TRUE, at |-> 0,
     doc |-> [status |-> "PENDING", executedAt |-> 0], res |-> NoActionRes]

\* the document as Action.insertMany stores a suggestion: status PENDING by
\* default, no executedAt; approved and posts are history
NewAction == [status |-> "PENDING", executedAt |-> 0, approved |-> FALSE, posts |-> 0]

\* the guard of the execute handler on the loaded document
NotApproved(doc) == doc.status # "APPROVED"

\* the assignments of the three handlers to the loaded document
Assign(op, doc, now) ==
    IF op = "approve" THEN [doc EXCEPT !.status = "APPROVED"]
    ELSE IF op = "reject" THEN [doc EXCEPT !.status = "REJECTED"]
    ELSE [doc EXCEPT !.status = "EXECUTED", !.executedAt = now]

\* action.save(): the paths the handler assigned are written to the stored
\* document, the others stay as stored
Saved(stored, op, doc) ==
    [stored EXCEPT !.status = doc.status,
                   !.executedAt = IF op = "execute" THEN doc.executedAt ELSE @,
                   !.approved = @ \/ op = "approve"]

ActionInit ==
    /\ action = NewAction
    /\ actionReq = [r \in ActionReqs |-> IdleActionReq]
    /\ DistQuiet
    /\ RecQuiet
    /\ WasteQuiet
    /\ FrameQuiet
    /\ PlanQuiet
    /\ ship = NoShip
    /\ listing = NoListing
    /\ launch = NoLaunch
    /\ items = NoItems
    /\ query = NoQuery

\* a request arrives for the action, or for an id no action has; the handler
\* runs up to `await Action.findById(...)`
ActionPost(r) ==
    /\ actionReq[r].pc \in {"idle", "done"}
    /\ action.posts < MaxActionPosts
    /\ \E op \in Endpoints, known \in BOOLEAN :
          actionReq' = [actionReq EXCEPT ![r] =
                           [IdleActionReq EXCEPT !.pc = "find", !.op = op, !.known = known,
                                                 !.at = action.posts + 1]]
    /\ action' = [action EXCEPT !.posts = @ + 1]
    /\ UNCHANGED <<distVars, recVars, wasteVars, frameVars, planVars,
                   ship, listing, launch, items, query>>

\* findById resolves; the handler answers or runs up to `await action.save()`
ActionFound(r) ==
    /\ actionReq[r].pc = "find"
    /\ LET q   == actionReq[r]
           doc == [status |-> action.status, executedAt |-> action.executedAt]
       IN  IF ~q.known
             THEN actionReq' = [actionReq EXCEPT ![r].pc = "done",
                                  ![r].res = [success |-> FALSE, message |-> "Action not found"]]
           ELSE IF q.op = "execute" /\ NotApproved(doc)
             THEN actionReq' = [actionReq EXCEPT ![r].pc = "done", ![r].doc = doc,
                                  ![r].res = [success |-> FALSE,
                                              message |-> "Action must be approved first"]]
           ELSE actionReq' = [actionReq EXCEPT ![r].pc = "save",
                                               ![r].doc = Assign(q.op, doc, q.at)]
    /\ UNCHANGED <<action, distVars, recVars, wasteVars, frameVars, planVars,
                   ship, listing, launch, items, query>>

\* save resolves: the document is written and the handler answers
ActionSaved(r) ==
    /\ actionReq[r].pc = "save"
    /\ action' = Saved(action, actionReq[r].op, actionReq[r].doc)
    /\ actionReq' = [actionReq EXCEPT ![r].pc = "done",
                        ![r].res = [success |-> TRUE, message |-> actionReq[r].op]]
    /\ UNCHANGED <<distVars, recVars, wasteVars, frameVars, planVars,
                   ship, listing, launch, items, query>>

\* findById or save rejects: the catch block answers 500
ActionDbError(r) ==
    /\ actionReq[r].pc \in {"find", "save"}
    /\ actionReq' = [actionReq EXCEPT ![r].pc = "done",
                        ![r].res = [success |-> FALSE, message |-> "db error"]]
    /\ UNCHANGED <<action, distVars, recVars, wasteVars, frameVars, planVars,
                   ship, listing, launch, items, query>>

ActionNext ==
    \E r \in ActionReqs :
        ActionPost(r) \/ ActionFound(r) \/ ActionSaved(r) \/ ActionDbError(r)

\* ============================================================================
\*  The warehouse network on its own: create, fulfill and list requests
\* ============================================================================
NetInit ==
    /\ warehouseRequests = <<>>
    /\ warehouseTransfers = <<>>
    /\ netRes = "none"
    /\ listing = NoListing
    /\ inventory = [k \in StoredProducts |-> 0]
    /\ call = NoCall
    /\ DistQuiet
    /\ RecQuiet
    /\ WasteQuiet
    /\ PlanQuiet
    /\ ship = NoShip
    /\ action = NoAction
    /\ actionReq = NoActionReqs
    /\ launch = NoLaunch
    /\ items = NoItems
    /\ query = NoQuery

\* POST /api/warehouse-request
NetCreate ==
    /\ Len(warehouseRequests) < MaxNetRequests
    /\ \E now \in Now :
          warehouseRequests' = Append(warehouseRequests, [id |-> now, status |-> "pending"])
    /\ netRes' = "created"
    /\ UNCHANGED <<warehouseTransfers, listing, inventory, call,
                   distVars, recVars, wasteVars, planVars,
                   ship, action, actionReq, launch, items, query>>

\* POST /api/warehouse-request/:requestId/fulfill: 404 without such a
\* request; else the first request with the id is marked fulfilled, whatever
\* its status, and a transfer is appended
NetFulfill ==
    /\ \E requestId \in Timestamps :
          LET k == FindRequest(requestId)
          IN  IF k = 0
                THEN /\ netRes' = "notFound"
                     /\ UNCHANGED <<warehouseRequests, warehouseTransfers>>
                ELSE /\ Len(warehouseTransfers) < MaxNetTransfers
                     /\ warehouseRequests' = [warehouseRequests EXCEPT ![k].status = "fulfilled"]
                     /\ \E now \in Now :
                           warehouseTransfers' = Append(warehouseTransfers, [id |-> now])
                     /\ netRes' = "fulfilled"
    /\ UNCHANGED <<listing, inventory, call,
                   distVars, recVars, wasteVars, planVars,
                   ship, action, actionReq, launch, items, query>>

\* warehouseRequests.filter(req => req.status === 'pending')
PendingOf(requests) == SelectSeq(requests, LAMBDA r : r.status = "pending")

\* .slice(-10)
Last10(requests) ==
    IF Len(requests) <= 10 THEN requests
    ELSE SubSeq(requests, Len(requests) - 9, Len(requests))

\* GET /api/warehouse-requests
NetList ==
    /\ listing' = [asked |-> TRUE, requests |-> Last10(PendingOf(warehouseRequests))]
    /\ UNCHANGED <<warehouseRequests, warehouseTransfers, netRes, inventory, call,
                   distVars, recVars, wasteVars, planVars,
                   ship, action, actionReq, launch, items, query>>

NetNext ==
    \/ NetCreate
    \/ NetFulfill
    \/ NetList

\* ============================================================================
\*  start-merged.js: the launcher, the Mastra child and the backend child
\* ============================================================================
Signals == {"SIGTERM", "SIGINT"}
ExitCodes == 0..MaxExitCode

\* a child process: not spawned, running, gone by itself with a code, or
\* gone by kill(); `seen` tells that the launcher's 'exit' handler has run
NoChild == [state |-> "notStarted", code |-> 0, seen |-> FALSE]
Running == [state |-> "running", code |-> 0, seen |-> FALSE]

\* child.kill(): a running child is terminated, another one is left as it is
Kill(child) == IF child.state = "running" THEN [child EXCEPT !.state = "killed"] ELSE child

\* the script has run to its end: Mastra is spawned, the timer of five
\* seconds is armed, the handlers are registered
LaunchInit ==
    /\ launch = [launcher |-> "running", code |-> 0, cause |-> "none",
                 clock |-> 0, timer |-> "armed", mastra |-> Running, backend |-> NoChild]
    /\ DistQuiet
    /\ RecQuiet
    /\ WasteQuiet
    /\ FrameQuiet
    /\ PlanQuiet
    /\ ship = NoShip
    /\ action = NoAction
    /\ actionReq = NoActionReqs
    /\ listing = NoListing
    /\ items = NoItems
    /\ query = NoQuery

\* a second passes while the launcher waits for its timer
Tick ==
    /\ launch.launcher = "running"
    /\ launch.timer = "armed"
    /\ launch.clock < BackendDelaySeconds
    /\ launch' = [launch EXCEPT !.clock = @ + 1]
    /\ UNCHANGED <<distVars, recVars, wasteVars, frameVars, planVars,
                   ship, action, actionReq, listing, items, query>>

\* the setTimeout callback: the backend is spawned
TimerFires ==
    /\ launch.launcher = "running"
    /\ launch.timer = "armed"
    /\ launch.clock = BackendDelaySeconds
    /\ launch' = [launch EXCEPT !.timer = "fired", !.backend = Running]
    /\ UNCHANGED <<distVars, recVars, wasteVars, frameVars, planVars,
                   ship, action, actionReq, listing, items, query>>

\* the Mastra process ends by itself, whether the launcher still runs or not
MastraExits ==
    /\ launch.mastra.state = "running"
    /\ \E code \in ExitCodes :
          launch' = [launch EXCEPT !.mastra = [state |-> "exited", code |-> code, seen |-> FALSE]]
    /\ UNCHANGED <<distVars, recVars, wasteVars, frameVars, planVars,
                   ship, action, actionReq, listing, items, query>>

\* the backend process ends by itself, whether the launcher still runs or not
BackendExits ==
    /\ launch.backend.state = "running"
    /\ \E code \in ExitCodes :
          launch' = [launch EXCEPT !.backend = [state |-> "exited", code |-> code, seen |-> FALSE]]
    /\ UNCHANGED <<distVars, recVars, wasteVars, frameVars, planVars,
                   ship, action, actionReq, listing, items, query>>

\* mastraProcess.on('exit'): process.exit(code)
OnMastraExit ==
    /\ launch.launcher = "running"
    /\ launch.mastra.state \in {"exited", "killed"}
    /\ ~launch.mastra.seen
    /\ launch' = [launch EXCEPT !.mastra.seen = TRUE,
                                !.launcher = "exited", !.code = launch.mastra.code,
                                !.cause = "mastra", !.timer = IF @ = "armed" THEN "dead" ELSE @]
    /\ UNCHANGED <<distVars, recVars, wasteVars, frameVars, planVars,
                   ship, action, actionReq, listing, items, query>>

\* backendProcess.on('exit'): mastraProcess.kill(); process.exit(code)
OnBackendExit ==
    /\ launch.launcher = "running"
    /\ launch.backend.state \in {"exited", "killed"}
    /\ ~launch.backend.seen
    /\ launch' = [launch EXCEPT !.backend.seen = TRUE,
                                !.mastra = Kill(@),
                                !.launcher = "exited", !.code = launch.backend.code,
                                !.cause = "backend"]
    /\ UNCHANGED <<distVars, recVars, wasteVars, frameVars, planVars,
                   ship, action, actionReq, listing, items, query>>

\* process.on('SIGTERM') / process.on('SIGINT'): mastraProcess.kill(); process.exit(0)
OnSignal ==
    /\ launch.launcher = "running"
    /\ \E signal \in Signals :
          launch' = [launch EXCEPT !.mastra = Kill(@),
                                   !.launcher = "exited", !.code = 0, !.cause = signal,
                                   !.timer = IF @ = "armed" THEN "dead" ELSE @]
    /\ UNCHANGED <<distVars, recVars, wasteVars, frameVars, planVars,
                   ship, action, actionReq, listing, items, query>>

LaunchNext ==
    \/ Tick
    \/ TimerFires
    \/ MastraExits
    \/ BackendExits
    \/ OnMastraExit
    \/ OnBackendExit
    \/ OnSignal

\* ============================================================================
\*  POST /api/distribute-stock with quantities of either sign
\* ============================================================================
\* the handler reads d.quantity as it comes: nothing in it tests the sign
SignedDistribution == [quantity : (0 - MaxQty)..MaxQty]
SignedBodies ==
    [userId : {USER1, USER2}, productSku : {SKU1, SKU2, SKU404},
     distributions : UNION {[1..n -> SignedDistribution] : n \in 0..1}]

\* the request arrives; the handler runs up to `await Inventory.findOne(...)`
SignedPost ==
    /\ call.pc \in {"idle", "done"}
    /\ \A key \in StoredProducts : inventory[key] <= MaxStock
    /\ \E body \in SignedBodies :
          call' = [NoCall EXCEPT !.pc = "findOne", !.body = body, !.lookups = 1,
                                 !.before = inventory]
    /\ UNCHANGED <<inventory, warehouseRequests, warehouseTransfers, netRes,
                   distVars, recVars, wasteVars, planVars, lateVars>>

SignedNext ==
    \/ SignedPost
    \/ FrameFindOneResolves
    \/ FrameSaveResolves
    \/ FrameDbError

\* ============================================================================
\*  GET /api/inventory
\* ============================================================================
\* user ids are strings, kept as sequences of characters so that the test of
\* their form is computed
Rep(c, n) == [i \in 1..n |-> c]
HexDigits == {"0", "1", "2", "3", "4", "5", "6", "7", "8", "9",
              "a", "b", "c", "d", "e", "f", "A", "B", "C", "D", "E", "F"}

OID1     == Rep("a", ObjectIdLength)                      \* user._id.toString() of one user
OID2     == Rep("0", ObjectIdLength - 1) \o <<"F">>       \* and of another
ShortHex == Rep("a", ObjectIdLength - 1)                  \* hexadecimal, one character short
Named    == <<"u", "s", "e", "r", "1", "2", "3">>         \* "user123"
Absent   == <<>>                                          \* undefined, or the empty string

Owners   == {OID1, OID2, Named}
UserIds  == {Absent, OID1, OID2, ShortHex, Named}
AllItems == [userId : Owners, sku : {SKU1, SKU2}]

\* /^[0-9a-fA-F]{24}$/.test(userId)
IsObjectId(userId) ==
    /\ Len(userId) = ObjectIdLength
    /\ \A i \in 1..Len(userId) : userId[i] \in HexDigits

\* req.session.userId || req.query.userId
Requester(session, param) == IF session # Absent THEN session ELSE param

\* the filter handed to Inventory.find: { userId }, or {} which matches all
FilterOf(userId) ==
    IF IsObjectId(userId) THEN [byUser |-> TRUE, userId |-> userId]
                          ELSE [byUser |-> FALSE, userId |-> Absent]

\* Inventory.find(query).lean()
Find(filter) == {item \in items : filter.byUser => item.userId = filter.userId}

InvInit ==
    /\ items \in SUBSET AllItems
    /\ query = NoQuery
    /\ DistQuiet
    /\ RecQuiet
    /\ WasteQuiet
    /\ FrameQuiet
    /\ PlanQuiet
    /\ ship = NoShip
    /\ action = NoAction
    /\ actionReq = NoActionReqs
    /\ listing = NoListing
    /\ launch = NoLaunch

\* the request arrives: 401 without a user id, else up to `await Inventory.find`
InvGet ==
    /\ query.pc \in {"idle", "done"}
    /\ \E session \in {Absent, OID1, OID2}, param \in UserIds :
          LET userId == Requester(session, param)
          IN  IF userId = Absent
                THEN query' = [NoQuery EXCEPT !.pc = "done", !.session = session,
                                              !.param = param, !.status = 401]
                ELSE query' = [NoQuery EXCEPT !.pc = "find", !.session = session,
                                              !.param = param, !.userId = userId,
                                              !.filter = FilterOf(userId)]
    /\ UNCHANGED <<items, distVars, recVars, wasteVars, frameVars, planVars,
                   ship, action, actionReq, listing, launch>>

\* find resolves: res.json(inventoryData)
InvFindResolves ==
    /\ query.pc = "find"
    /\ query' = [query EXCEPT !.pc = "done", !.status = 200, !.body = Find(query.filter)]
    /\ UNCHANGED <<items, distVars, recVars, wasteVars, frameVars, planVars,
                   ship, action, actionReq, listing, launch>>

\* find rejects: the catch block answers 500
InvDbError ==
    /\ query.pc = "find"
    /\ query' = [query EXCEPT !.pc = "done", !.status = 500]
    /\ UNCHANGED <<items, distVars, recVars, wasteVars, frameVars, planVars,
                   ship, action, actionReq, listing, launch>>

InvNext ==
    \/ InvGet
    \/ InvFindResolves
    \/ InvDbError

\* ============================================================================
\*  Specifications
\* ============================================================================
DistSpec == DistInit /\ [][DistNext]_vars

RecSpec == RecInit /\ [][RecNext]_vars

WasteSpec == WasteInit /\ [][WasteNext]_vars
FrameSpec == FrameInit /\ [][FrameNext]_vars
PlanSpec == PlanInit /\ [][PlanNext]_vars
ShipSpec == ShipInit /\ [][ShipNext]_vars /\ WF_vars(ShipEvent)
ActionSpec == ActionInit /\ [][ActionNext]_vars
NetSpec == NetInit /\ [][NetNext]_vars
LaunchSpec == LaunchInit /\ [][LaunchNext]_vars
SignedSpec == FrameInit /\ [][SignedNext]_vars
InvSpec == InvInit /\ [][InvNext]_vars
RecFairSpec == RecFairInit /\ [][RecNext]_vars /\ WF_vars(RecHandlerStep)

\* ============================================================================
\*  Properties
\* ============================================================================
Answered == rec.pc = "done"

\* the warehouse of the body a distribution entry names
WarehouseOf(d) == warehouses[d.warehouseId]

\* currentStock / demand >= 30 days, or no demand at all (infinite supply)
AdequatelyStocked(wh) ==
    wh.demand = 0 \/ 100 * wh.currentStock >= 30 * wh.demand

\* C1: every returned plan, on either path, distributes at most excessStock
\* units in total, and totalUnits is that total.
C1_BudgetConservation ==
    Answered =>
        /\ rec.res.totalUnits = SumQuantity(rec.res.distributions)
        /\ rec.res.totalUnits <= excessStock

C1_Witness ==
    /\ Answered
    /\ rec.path = "agent"
    /\ Len(rec.res.distributions) >= 2
    /\ rec.res.totalUnits = excessStock
    /\ \E k \in 1..Len(rec.res.distributions) :
          rec.res.distributions[k].quantity
              < WarehouseOf(rec.res.distributions[k]).suggestedQty

\* C2: a warehouse with at least 30 days of supply (or no demand) is in the
\* distributions of no returned plan, whichever path produced it.
C2_ExclusionGate ==
    Answered =>
        \A k \in 1..Len(rec.res.distributions) :
            ~AdequatelyStocked(WarehouseOf(rec.res.distributions[k]))

\* requests that have been answered with success
Succeeded == {r \in Reqs : req[r].pc = "done" /\ req[r].res.success}

RECURSIVE SumDistributed(_)
SumDistributed(rs) ==
    IF rs = {} THEN 0
    ELSE LET r == CHOOSE x \in rs : TRUE
         IN  req[r].res.totalDistributed + SumDistributed(rs \ {r})

InFlight == {r \in Reqs : req[r].pc \in {"findOne", "save"}}

\* C3: once no request is in flight, onHand is the initial onHand minus the
\* units of all requests that answered success (read-check-write is atomic).
C3_AtomicReadCheckWrite ==
    InFlight = {} => onHand = onHand0 - SumDistributed(Succeeded)

\* C4: the stored onHand is never negative, under every interleaving.
C4_NonNegativeOnHand == onHand >= 0

\* two requests both succeeded although the stock could not serve both
C4_Witness ==
    /\ Cardinality(Succeeded) >= 2
    /\ SumDistributed(Succeeded) > onHand0
    /\ onHand >= 0

TotalOf(r) == SumQuantity(req[r].body.distributions)

\* C5: a request whose quantities sum to more than the onHand it finds is
\* answered "Not enough stock to distribute", and that step writes nothing;
\* the request is done and never saves.
C5_RejectedAsAWhole ==
    [][\A r \in Reqs :
          (/\ req[r].pc = "findOne"
           /\ req'[r].pc # "findOne"
           /\ req'[r].res.error # "db error"
           /\ req[r].body.productSku = SKU1
           /\ TotalOf(r) > onHand)
          => (/\ req'[r].pc = "done"
              /\ ~req'[r].res.success
              /\ req'[r].res.error = "Not enough stock to distribute"
              /\ onHand' = onHand)]_vars

C5_Witness ==
    \E r \in Reqs :
        /\ req[r].pc = "done"
        /\ req[r].res.error = "Not enough stock to distribute"
        /\ TotalOf(r) > onHand
        /\ onHand = onHand0
        /\ onHand > 0

\* C6: a single request (no other request was posted) whose quantities sum to
\* at most onHand takes exactly that sum off onHand and reports the sum, the
\* stored onHand and the number of allocations.
C6_SingleDistribute ==
    \A r \in Reqs :
        (/\ \A o \in Reqs \ {r} : req[o].pc = "idle"
         /\ req[r].pc = "done"
         /\ req[r].res.error # "db error"
         /\ req[r].body.productSku = SKU1
         /\ TotalOf(r) <= onHand0)
        => (/\ req[r].res.success
            /\ onHand = onHand0 - TotalOf(r)
            /\ req[r].res.totalDistributed = TotalOf(r)
            /\ req[r].res.newStockLevel = onHand
            /\ req[r].res.warehousesUpdated = Len(req[r].body.distributions))

C6_Witness ==
    \E r \in Reqs :
        /\ \A o \in Reqs \ {r} : req[o].pc = "idle"
        /\ req[r].pc = "done"
        /\ req[r].res.success
        /\ req[r].res.warehousesUpdated >= 1
        /\ req[r].res.totalDistributed >= 1
        /\ req[r].res.newStockLevel = onHand0 - req[r].res.totalDistributed
        /\ onHand < onHand0

\* C7: every answer to the same body carries the same distributions as the
\* first answer, whatever the agent did.
C7_Determinism ==
    (Answered /\ answered.any) => rec.res.distributions = answered.distributions

\* C8: with excessStock = 0 the returned plan is empty, on either path.
C8_ZeroExcess ==
    (Answered /\ excessStock = 0) =>
        /\ rec.res.distributions = <<>>
        /\ rec.res.totalUnits = 0

C8_Witness ==
    /\ Answered
    /\ excessStock = 0
    /\ rec.path = "fallback"
    /\ \E k \in 1..Len(rec.list) : rec.list[k].suggestedQty > 0

\* the least integer n with n >= demand * 30 (demand in hundredths)
Ceil30(demand) ==
    CHOOSE n \in 0..(30 * demand) : 100 * n >= 30 * demand /\ 100 * (n - 1) < 30 * demand

Min3(a, b, c) ==
    CHOOSE m \in {a, b, c} : m <= a /\ m <= b /\ m <= c

IsPrefix(s, t) == Len(s) <= Len(t) /\ SubSeq(t, 1, Len(s)) = s

\* C9: on the agent path each loop step visits the next warehouse in rank
\* order; an allocation it makes has quantity min(ceil(demand * 30) -
\* currentStock, stock remaining before, suggestedQty), the remaining stock
\* goes down by exactly what was allocated, earlier entries stay as they
\* are, and the answer carries the entries as allocated.
C9_GreedyAllocation ==
    [][(rec.pc = "agentLoop" /\ rec' # rec) =>
          LET wh == rec.list[rec.i]
              q  == Min3(Ceil30(wh.demand) - wh.currentStock, rec.remainingStock,
                         wh.suggestedQty)
          IN  IF rec'.pc = "agentLoop"
                THEN /\ rec'.list = rec.list
                     /\ rec'.i = rec.i + 1
                     /\ IsPrefix(rec.distributions, rec'.distributions)
                     /\ \/ /\ rec'.distributions = rec.distributions
                           /\ rec'.remainingStock = rec.remainingStock
                        \/ /\ rec'.distributions =
                                 Append(rec.distributions,
                                        [warehouseId |-> wh.id, quantity |-> q])
                           /\ rec'.remainingStock = rec.remainingStock - q
                ELSE /\ rec'.pc = "done"
                     /\ rec'.res.distributions = rec.distributions]_vars

\* two allocations were made, the first one limited by the units needed and
\* the second one by the stock that remained
C9_Witness ==
    /\ rec.pc = "agentLoop"
    /\ Len(rec.distributions) = 2
    /\ rec.remainingStock = 0
    /\ LET d == rec.distributions[1]
       IN  /\ d.quantity < WarehouseOf(d).suggestedQty
           /\ d.quantity < excessStock
           /\ d.quantity = Ceil30(WarehouseOf(d).demand) - WarehouseOf(d).currentStock

\* score(a) > score(b), score = (demand / currentStock) / transferCost,
\* with x / 0 = Infinity for x > 0
ScoreAbove(a, b) ==
    IF a.currentStock = 0 THEN b.currentStock # 0
    ELSE IF b.currentStock = 0 THEN FALSE
    ELSE a.demand * b.currentStock * b.transferCost
             > b.demand * a.currentStock * a.transferCost

ScoreEqual(a, b) == ~ScoreAbove(a, b) /\ ~ScoreAbove(b, a)

\* the list the agent path walks holds the warehouses of the body
VisitsTheBody ==
    /\ Len(rec.list) = Len(warehouses)
    /\ \A k \in 1..Len(warehouses) : \E m \in 1..Len(rec.list) : rec.list[m] = warehouses[k]

\* C10 as claimed: the agent path visits the warehouses by descending score,
\* equal scores lower transferCost first, then in input order.
C10_TieByCost ==
    rec.path = "agent" /\ rec.pc = "agentLoop" =>
        /\ VisitsTheBody
        /\ \A k, m \in 1..Len(rec.list) :
              k < m =>
                 \/ ScoreAbove(rec.list[k], rec.list[m])
                 \/ /\ ScoreEqual(rec.list[k], rec.list[m])
                    /\ \/ rec.list[k].transferCost < rec.list[m].transferCost
                       \/ /\ rec.list[k].transferCost = rec.list[m].transferCost
                          /\ rec.list[k].id < rec.list[m].id

\* C10 amended: the agent path visits the warehouses by descending score,
\* equal scores in input order whatever their transferCost.
C10_TieByInputOrder ==
    rec.path = "agent" /\ rec.pc = "agentLoop" =>
        /\ VisitsTheBody
        /\ \A k, m \in 1..Len(rec.list) :
              k < m =>
                 \/ ScoreAbove(rec.list[k], rec.list[m])
                 \/ /\ ScoreEqual(rec.list[k], rec.list[m])
                    /\ rec.list[k].id < rec.list[m].id

\* equal scores, the dearer warehouse first in the body and visited first
C10_Witness ==
    /\ rec.path = "agent"
    /\ rec.pc = "agentLoop"
    /\ \E k \in 1..(Len(rec.list) - 1) :
          /\ ScoreEqual(rec.list[k], rec.list[k + 1])
          /\ rec.list[k].transferCost > rec.list[k + 1].transferCost
          /\ rec.list[k].id < rec.list[k + 1].id
    /\ \E k \in 1..(Len(rec.list) - 1) : ScoreAbove(rec.list[k], rec.list[k + 1])

Rendered == page.status = "render"
ToolAnswered == tool.status = "ok"

\* C11: for the same product the tool and GET /reduce-waste compute the same
\* excessStock.
C11_SameExcess ==
    (Rendered /\ ToolAnswered) => page.excessStock = tool.excessStock

\* the least integer n with n >= (num / den) * days
CeilOf(avg, days) ==
    CHOOSE n \in 0..(days * avg.num) :
        n * avg.den >= days * avg.num /\ (n - 1) * avg.den < days * avg.num

RECURSIVE TotalSold(_)
TotalSold(records) ==
    IF records = <<>> THEN 0 ELSE Head(records).unitsSold + TotalSold(Tail(records))

\* avg is the arithmetic mean of unitsSold over the records of the history,
\* 0 without records and the entry's unitsSold for a single record
IsMeanOf(avg, history) ==
    LET records == history.records
    IN  /\ avg.den > 0
        /\ Len(records) = 0 => avg.num = 0
        /\ Len(records) = 1 => avg.num = records[1].unitsSold * avg.den
        /\ Len(records) > 0 => avg.num * Len(records) = TotalSold(records) * avg.den

\* C13: the avgDemand of GET /reduce-waste and of the tool is the arithmetic
\* mean of unitsSold, 0 for an empty or missing history, the entry's
\* unitsSold for a single entry.
C13_AverageDemand ==
    /\ Rendered => IsMeanOf(page.avgDemand, stockItem.demandHistory)
    /\ ToolAnswered => IsMeanOf(tool.avgDemand, stockItem.demandHistory)

C13_Witness ==
    /\ Rendered
    /\ ToolAnswered
    /\ Len(stockItem.demandHistory.records) = 2
    /\ stockItem.demandHistory.records[1].unitsSold = 1
    /\ stockItem.demandHistory.records[2].unitsSold = 2

\* C16: the tool's totalRecommendedDistribution is at most its excessStock.
C16_ToolWithinExcess ==
    ToolAnswered => tool.totalRecommendedDistribution <= tool.excessStock

\* C14: every entry of the distributions of a response has a quantity above
\* zero, on the agent path and on the fallback path.
C14_PositiveQuantities ==
    Answered =>
        \A k \in 1..Len(rec.res.distributions) : rec.res.distributions[k].quantity > 0

\* a plan with entries was answered after a warehouse that could take nothing
\* (suggestedQty 0) was visited and left out
C14_Witness ==
    /\ Answered
    /\ Len(rec.res.distributions) > 0
    /\ \E k \in 1..Len(rec.list) : k < rec.i /\ rec.list[k].suggestedQty = 0

\* C15: an answered recommendation has shouldDistribute true exactly when its
\* distributions are not empty.
C15_ShouldDistributeIffPlan ==
    Answered => (rec.res.shouldDistribute <=> Len(rec.res.distributions) > 0)

Pending == rec.pc \in {"fetch", "agentLoop", "fallbackLoop"}

\* C20: every recommendation request gets exactly one response, and it has
\* success = true with a recommendation, whether the agent answers, answers
\* with a non-OK status or throws: a pending request is eventually answered,
\* every answer is a success, and after the answer the handler does nothing
\* more for that request.
C20_AlwaysOneSuccess ==
    /\ [][/\ (rec'.pc = "done" /\ rec.pc # "done") =>
                 (Pending /\ rec'.res.success /\ rec'.path \in {"agent", "fallback"})
          /\ rec.pc = "done" => rec'.pc = "fetch"]_vars
    /\ (Pending ~> Answered)

\* the agent failed and the caller still got a successful answer with a plan
C20_Witness ==
    /\ Answered
    /\ rec.path = "fallback"
    /\ rec.res.success
    /\ Len(rec.res.distributions) = 2

\* the product a distribute-stock request names
CallKey == <<call.body.userId, call.body.productSku>>

\* C17: a distribute-stock request changes nothing but the onHand of the one
\* product matched by (userId, sku): every other product's onHand, the
\* warehouseRequests list and the warehouseTransfers list stay as they are,
\* whether the request succeeds or fails.
C17_FrameOfDistribute ==
    [][call' # call =>
          /\ warehouseRequests' = warehouseRequests
          /\ warehouseTransfers' = warehouseTransfers
          /\ \A key \in StoredProducts :
                inventory'[key] # inventory[key] => (call.pc = "save" /\ key = CallKey)]_vars

\* a request took units from one product while the other user's product of
\* the same sku and both in-memory lists had content
C17_Witness ==
    /\ call.pc = "done"
    /\ call.res.success
    /\ call.res.totalDistributed > 0
    /\ call.body.productSku = SKU1
    /\ inventory[CallKey] < call.before[CallKey]
    /\ warehouseRequests # <<>>
    /\ warehouseTransfers # <<>>

\* C18: a distribute-stock request for a (userId, sku) that matches no product
\* is answered with the failure 'Product not found' after a single lookup, and
\* no product's onHand changes.
C18_ProductNotFound ==
    (call.pc = "done" /\ CallKey \notin StoredProducts) =>
        /\ ~call.res.success
        /\ call.res.error \in {"Product not found", "db error"}
        /\ call.lookups = 1
        /\ inventory = call.before

\* the sku exists, but for the other user only
C18_Witness ==
    /\ call.pc = "done"
    /\ CallKey = <<USER2, SKU2>>
    /\ call.res.error = "Product not found"
    /\ inventory = call.before

\* C19: every response of generate-waste-plans carries between 4 and 5 plans.
C19_FourToFivePlans ==
    plan.pc = "done" => Len(plan.plans) \in 4..5

\* the warehouses of the body that cost strictly less than wh
CheaperThan(wh) ==
    {j \in 1..Len(warehouses) : warehouses[j].transferCost < wh.transferCost}

\* C24: on the fallback path allocations go only to the three warehouses
\* with the lowest transferCost among those supplied, so a plan has at most
\* three allocations.
C24_ThreeCheapest ==
    (Answered /\ rec.path = "fallback") =>
        /\ Len(rec.res.distributions) <= 3
        /\ \A k \in 1..Len(rec.res.distributions) :
              Cardinality(CheaperThan(WarehouseOf(rec.res.distributions[k]))) < 3

\* the rendered warehouse with the k-th definition (WH-00k)
Shown(k) == CHOOSE w \in {page.warehouses[j] : j \in 1..Len(page.warehouses)} : w.id = k

\* C21: for every rendered warehouse costSource is 'shipengine' exactly when
\* transferCost is the amount the ShipEngine call returned, and otherwise it
\* is 'estimated' with the warehouse's mock cost; without a usable key no
\* request is made and every warehouse is 'estimated'.
C21_CostSource ==
    Rendered =>
        /\ \A k \in 1..Len(page.realCosts) :
              LET w == Shown(k)
                  r == page.realCosts[k]
              IN  /\ w.costSource = "shipengine" <=> (~r.null /\ w.transferCost = r.amount)
                  /\ w.costSource # "shipengine" =>
                        (w.costSource = "estimated" /\ w.transferCost = MockCosts[k])
        /\ page.apiKey \in {"unset", "placeholder"} =>
              /\ page.requests = 0
              /\ \A j \in 1..Len(page.warehouses) : page.warehouses[j].costSource = "estimated"

\* a key is set; one call returned a free rate, one a rate, one nothing
C21_Witness ==
    /\ Rendered
    /\ page.apiKey = "live"
    /\ page.realCosts[1] = Cost(0)
    /\ page.realCosts[2] = NoCost
    /\ Shown(3).costSource = "shipengine"

\* C23: the rendered list is sorted by transferCost ascending, for every
\* combination of real and mock costs, and every suggestedQty is at most
\* excessStock.
C23_SortedByCost ==
    Rendered =>
        /\ Len(page.warehouses) = 5
        /\ \A j \in 1..(Len(page.warehouses) - 1) :
              page.warehouses[j].transferCost <= page.warehouses[j + 1].transferCost
        /\ \A j \in 1..Len(page.warehouses) :
              page.warehouses[j].suggestedQty <= page.excessStock

\* a real cost moved the last definition ahead of two estimated ones
C23_Witness ==
    /\ Rendered
    /\ page.excessStock > 0
    /\ page.warehouses[3].id = 5
    /\ page.warehouses[3].costSource = "shipengine"
    /\ page.warehouses[4].costSource = "estimated"
    /\ page.warehouses[3].suggestedQty > 0

\* the promise of a call is pending
ShipPending == ship.pc = "requested" /\ ~ship.settled

C25_ExecutedOnlyFromApproved ==
    /\ [][(action'.status = "EXECUTED" /\ action.status # "EXECUTED") =>
              action.status = "APPROVED"]_vars
    /\ [](\A r \in ActionReqs :
            (actionReq[r].pc = "done" /\ actionReq[r].op = "execute" /\ actionReq[r].known
               /\ actionReq[r].res.message # "db error"
               /\ actionReq[r].doc.status # "EXECUTED") =>
                  actionReq[r].res.message = "Action must be approved first")
    /\ [](action.status = "EXECUTED" => action.approved)

\* C26: REJECTED and EXECUTED are terminal: a stored status REJECTED or
\* EXECUTED never changes again.
C26_TerminalStatuses ==
    [][(action.status \in {"REJECTED", "EXECUTED"}) => action'.status = action.status]_vars

\* the stock requests that have been fulfilled
Fulfilled == {k \in 1..Len(warehouseRequests) : warehouseRequests[k].status = "fulfilled"}

\* C27: after any sequence of create and fulfill requests each stock request
\* has at most one transfer created for it (there are no more transfers than
\* fulfilled requests), and the list of requests never shows a fulfilled one.
C27_OneTransferPerRequest ==
    /\ Len(warehouseTransfers) <= Cardinality(Fulfilled)
    /\ \A k \in 1..Len(listing.requests) : listing.requests[k].status = "pending"

\* C28: whenever the launcher has exited, for whatever cause and at whatever
\* moment relative to the delayed start of the backend, neither the Mastra
\* child nor the backend child is running.
C28_NoChildLeftRunning ==
    launch.launcher = "exited" =>
        (launch.mastra.state # "running" /\ launch.backend.state # "running")

\* C29: no distribute-stock request increases a stored onHand: once the
\* request is answered, every product's onHand is at most what it was when
\* the request arrived, whatever the body.
C29_NeverIncreasesOnHand ==
    call.pc = "done" => \A key \in StoredProducts : inventory[key] <= call.before[key]

\* the items of the collection that belong to the user of the request
OwnItems == {item \in items : item.userId = query.userId}

\* C30: GET /api/inventory answers 401 when neither the session nor the query
\* names a user, and otherwise every answer with items holds exactly the
\* items of the requesting user, so that the items of other users have no
\* influence on it.
C30_OnlyOwnItems ==
    query.pc = "done" =>
        IF Requester(query.session, query.param) = Absent
          THEN query.status = 401
          ELSE query.status = 200 => query.body = OwnItems

====
